---- MODULE Spec2Model ----
(***************************************************************************)
(* simple-rsc: the build (server.js build()), the startup sequence          *)
(* (serve callback), the server-function registry and state store           *)
(* (server/server-functions.js, server/state.js), the POST /server-fn       *)
(* dispatcher and the likeAlbum server function.                            *)
(*   Spec          startup and POST /server-fn requests                     *)
(*   BuildSpec     build() and startup alone, over more source trees        *)
(*   RegistrySpec  the registry API called directly                         *)
(***************************************************************************)
EXTENDS Integers, Sequences, FiniteSets, TLC

VARIABLES
    platform,   \* "posix" or "win32": decides the separator node:path uses
    tree,       \* the source tree under app/: module key -> module record
    phase,      \* position of the serve() callback: build(), import loop, done
    artifacts,  \* files written under build/ by the server esbuild run
    stubs,      \* proxy stubs generated by the client esbuild run
    toImport,   \* files of build/actions the startup loop has still to import
    loaded,     \* module cache: build artifacts already evaluated
    registry,   \* server/server-functions.js: Map id -> function
    store,      \* server/state.js: Map key -> value
    reqs,       \* POST /server-fn requests in flight, one record per slot
    received,   \* number of requests accepted so far
    called,     \* per album key: likeAlbum calls that returned
    completed,  \* per album key: likeAlbum dispatches answered with a stream
    lastCall,   \* the last direct call of the registry API and its outcome
    log,        \* the errors and warnings the two esbuild runs reported
    outputs,    \* client output files handed to writeFile and not yet on disk
    written     \* client output files on disk under build/

vars == <<platform, tree, phase, artifacts, stubs, toImport, loaded, registry,
          store, reqs, received, called, completed, lastCall, log, outputs, written>>

(***************************************************************************)
(* Bounds of the model.                                                     *)
(***************************************************************************)
MaxReq == 2      \* request slots (requests that may overlap)
MaxCalls == 2    \* requests accepted in one behaviour

(***************************************************************************)
(* JavaScript values.  Every value is a record [t, v, art]: t the type,     *)
(* v the printed content, art the build artifact whose evaluation created   *)
(* a function object ("" for everything else).                              *)
(***************************************************************************)
JsVal(t, v) == [t |-> t, v |-> v, art |-> ""]
JsStr(s) == JsVal("string", s)
JsFun(n, a) == [t |-> "function", v |-> n, art |-> a]
Undefined == JsVal("undefined", "")

\* ToBoolean, as `!fn` applies it
Truthy(x) ==
    CASE x.t = "undefined" -> FALSE
      [] x.t = "null" -> FALSE
      [] x.t = "boolean" -> x.v = "true"
      [] x.t = "number" -> x.v \notin {"0", "NaN"}
      [] x.t = "string" -> x.v # ""
      [] OTHER -> TRUE

\* ToString, as a template literal applies it in `${x}`: an object whose own toString is
\* not callable (JSON {"toString":1}) cannot be converted and throws TypeError
CanJsToString(x) == ~(x.t = "object" /\ x.v = "badToString")
JsToString(x) ==
    CASE x.t = "undefined" -> "undefined"
      [] x.t = "null" -> "null"
      [] x.t = "object" -> "[object Object]"
      [] x.t = "function" -> "async function " \o x.v \o "() {}"
      [] OTHER -> x.v

(***************************************************************************)
(* Source text: the leading tokens of a module's source.                    *)
(***************************************************************************)
SQ == "'"
DQ == "\""
Directive(q, d) == <<q, d, q, ";">>

\* String.prototype.startsWith on token sequences
startsWith(s, p) == Len(p) <= Len(s) /\ SubSeq(s, 1, Len(p)) = p

(***************************************************************************)
(* Paths.  A path is a sequence of segments, a segment a sequence of atoms  *)
(* (strings without separator); the atom "\\" is a backslash inside a name. *)
(***************************************************************************)
Seg(s) == <<s>>
Root == <<Seg("proj")>>
AppDir == Root \o <<Seg("app")>>
BuildDir == Root \o <<Seg("build")>>
ServerDir == Root \o <<Seg("server")>>

Sep == IF platform = "win32" THEN "\\" ELSE "/"

RECURSIVE CommonLen(_, _)
CommonLen(a, b) ==
    IF a = <<>> \/ b = <<>> \/ Head(a) # Head(b) THEN 0
    ELSE 1 + CommonLen(Tail(a), Tail(b))

\* node:path relative(from, to) as a list of segments
RelativeSegs(from, to) ==
    LET c == CommonLen(from, to)
    IN [i \in 1..(Len(from) - c) |-> Seg("..")] \o SubSeq(to, c + 1, Len(to))

\* joins segments with the platform separator into one list of atoms
RECURSIVE JoinAtoms(_, _)
JoinAtoms(segs, sep) ==
    IF segs = <<>> THEN <<>>
    ELSE IF Len(segs) = 1 THEN Head(segs)
    ELSE Head(segs) \o <<sep>> \o JoinAtoms(Tail(segs), sep)

relative(from, to) == JoinAtoms(RelativeSegs(from, to), Sep)

\* .replace(/\\/g, '/')
ReplaceBackslash(atoms) ==
    [i \in 1..Len(atoms) |-> IF atoms[i] = "\\" THEN "/" ELSE atoms[i]]

RECURSIVE Flatten(_)
Flatten(atoms) == IF atoms = <<>> THEN "" ELSE Head(atoms) \o Flatten(Tail(atoms))

Last(s) == s[Len(s)]
Front(s) == SubSeq(s, 1, Len(s) - 1)

(***************************************************************************)
(* The source trees the model is run on.  A module is                       *)
(*   dir     its directory below app/ (a path)                              *)
(*   file    its file name, a segment whose last atom is the extension      *)
(*   src     the leading tokens of its source text                          *)
(*   exports its exports in source order: n the exported name and ln the    *)
(*           local name es-module-lexer reports, kind the exported value    *)
(*   imports its imports: of another module of the tree, or of a module     *)
(*           of server/, written as the correct relative specifier; a bare  *)
(*           import leaves the file extension to the bundler                *)
(***************************************************************************)
Mod(k) == [kind |-> "mod", to |-> k, bare |-> FALSE]
ModBare(k) == [kind |-> "mod", to |-> k, bare |-> TRUE]
Shared(f) == [kind |-> "shared", to |-> f, bare |-> FALSE]
ExpAs(n, ln, k) == [n |-> n, ln |-> ln, kind |-> k]
Exp(n, k) == ExpAs(n, n, k)

PageMod ==
    [dir |-> <<>>, file |-> <<"page", ".jsx">>, src |-> <<"import">>,
     exports |-> <<ExpAs("default", "Page", "function")>>,
     imports |-> {Mod("Like"), Shared("state.js")}]

ClientBoot ==
    [dir |-> <<>>, file |-> <<"_client", ".jsx">>, src |-> <<"import">>,
     exports |-> <<>>, imports |-> {}]

\* export default function Like
LikeDefault == <<ExpAs("default", "Like", "function")>>

ClientMod(dir, ext, q, exports, imports) ==
    [dir |-> dir, file |-> <<"Like", ext>>,
     src |-> Directive(q, "use client") \o <<"import">>,
     exports |-> exports, imports |-> imports]

LikeMod(q) == ClientMod(<<>>, ".jsx", q, LikeDefault, {Mod("album")})

ActMod(dir, ext, src, exports) ==
    [dir |-> dir, file |-> <<"album", ext>>, src |-> src \o <<"import">>,
     exports |-> exports, imports |-> {Shared("state.js")}]

MkTree(like, album) ==
    [k \in {"page", "_client", "Like", "album"} |->
        CASE k = "page" -> PageMod
          [] k = "_client" -> ClientBoot
          [] k = "Like" -> like
          [] OTHER -> album]

Actions == <<Seg("actions")>>
LikeAlbumOnly == <<Exp("likeAlbum", "function")>>

\* the repository as it is
Repository ==
    MkTree(LikeMod(SQ), ActMod(Actions, ".js", Directive(SQ, "use server"), LikeAlbumOnly))

Trees ==
    { Repository,
      \* the directives written with double quotes
      MkTree(LikeMod(SQ), ActMod(Actions, ".js", Directive(DQ, "use server"), LikeAlbumOnly)),
      MkTree(LikeMod(DQ), ActMod(Actions, ".js", Directive(SQ, "use server"), LikeAlbumOnly)),
      \* the server-function module elsewhere under app/
      MkTree(LikeMod(SQ), ActMod(<<Seg("lib")>>, ".js", Directive(SQ, "use server"), LikeAlbumOnly)),
      MkTree(LikeMod(SQ), ActMod(Actions \o <<Seg("admin")>>, ".js", Directive(SQ, "use server"), LikeAlbumOnly)),
      \* a .jsx server-function module
      MkTree(LikeMod(SQ), ActMod(Actions, ".jsx", Directive(SQ, "use server"), LikeAlbumOnly)),
      \* a comment before the directive, and no directive at all
      MkTree(LikeMod(SQ), ActMod(Actions, ".js", <<"// c">> \o Directive(SQ, "use server"), LikeAlbumOnly)),
      MkTree(LikeMod(SQ), ActMod(Actions, ".js", <<>>, LikeAlbumOnly)),
      \* more exports: a default export, and an exported constant 0
      MkTree(LikeMod(SQ), ActMod(Actions, ".js", Directive(SQ, "use server"),
                                 <<ExpAs("default", "like", "function"),
                                   Exp("likeAlbum", "function")>>)),
      MkTree(LikeMod(SQ), ActMod(Actions, ".js", Directive(SQ, "use server"),
                                 <<Exp("likeAlbum", "function"), Exp("count", "zero")>>)) }

\* the trees also built with the Windows path separator
WindowsTrees ==
    { Repository,
      MkTree(LikeMod(SQ), ActMod(<<Seg("lib")>>, ".js", Directive(SQ, "use server"), LikeAlbumOnly)) }

\* a further module in the tree, a further import in a module
WithModule(t, k, m) == [x \in DOMAIN t \cup {k} |-> IF x = k THEN m ELSE t[x]]
AddImport(t, k, i) == [t EXCEPT ![k].imports = @ \cup {i}]

\* a plain module that keeps its count in server/state.js
CounterMod(dir) ==
    [dir |-> dir, file |-> <<"counter", ".js">>, src |-> <<"import">>,
     exports |-> <<Exp("bump", "function")>>, imports |-> {Shared("state.js")}]

\* the page and the server function both import the counter module
CounterTree(dir) ==
    AddImport(AddImport(WithModule(Repository, "counter", CounterMod(dir)),
                        "page", Mod("counter")),
              "album", Mod("counter"))

\* app/actions/x\album.js next to app/actions/x/album.js, both imported by Like.jsx
BackslashTree ==
    WithModule(
        MkTree(ClientMod(<<>>, ".jsx", SQ, LikeDefault, {Mod("album"), Mod("album2")}),
               ActMod(Actions \o <<Seg("x")>>, ".js", Directive(SQ, "use server"),
                      LikeAlbumOnly)),
        "album2",
        [dir |-> Actions, file |-> <<"x", "\\", "album", ".js">>,
         src |-> Directive(SQ, "use server") \o <<"import">>,
         exports |-> LikeAlbumOnly, imports |-> {Shared("state.js")}])

UseServer == Directive(SQ, "use server")

\* the trees the build alone is run on
BuildTrees ==
    Trees \cup
    { \* client modules: the component exported under two names, next to a
      \* constant, in a directory of its own
      MkTree(ClientMod(<<>>, ".jsx", SQ,
                       <<ExpAs("default", "Like", "function"), Exp("Like", "function")>>,
                       {Mod("album")}),
             ActMod(Actions, ".js", UseServer, LikeAlbumOnly)),
      MkTree(ClientMod(<<>>, ".jsx", SQ, LikeDefault \o <<Exp("version", "zero")>>,
                       {Mod("album")}),
             ActMod(Actions, ".js", UseServer, LikeAlbumOnly)),
      MkTree(ClientMod(<<Seg("components")>>, ".jsx", SQ, LikeDefault, {Mod("album")}),
             ActMod(Actions, ".js", UseServer, LikeAlbumOnly)),
      \* a client module in a .js file, and imports written without extension
      MkTree(ClientMod(<<>>, ".js", SQ, LikeDefault, {Mod("album")}),
             ActMod(Actions, ".js", UseServer, LikeAlbumOnly)),
      MkTree(ClientMod(<<>>, ".jsx", SQ, LikeDefault, {ModBare("album")}),
             ActMod(Actions, ".js", UseServer, LikeAlbumOnly)),
      \* a module importing server/state.js from app/, app/lib/ and app/lib/deep/,
      \* bundled into both the page and the server function
      CounterTree(<<>>),
      CounterTree(<<Seg("lib")>>),
      CounterTree(<<Seg("lib"), Seg("deep")>>),
      \* a backslash in a file name
      BackslashTree,
      \* two exported functions, and the module that registers by hand
      MkTree(LikeMod(SQ), ActMod(Actions, ".js", UseServer,
                                 <<Exp("likeAlbum", "function"),
                                   Exp("unlikeAlbum", "function")>>)),
      AddImport(Repository, "album", Shared("server-functions.js")) }

\* a Windows file name holds no backslash
BuildWindowsTrees == BuildTrees \ {BackslashTree}

resolveApp(m) == AppDir \o tree[m].dir \o <<tree[m].file>>

ModEdges(m) == {j \in tree[m].imports : j.kind = "mod"}
SharedImports(m) == {i.to : i \in {j \in tree[m].imports : j.kind = "shared"}}
IsNamed(e) == e.n # "" /\ e.n # "default"
NamedExports(m) == SelectSeq(tree[m].exports, IsNamed)
IsScript(file) == Last(file) \in {".js", ".jsx"}

(***************************************************************************)
(* The Directive Scanner of the specification: the first statement of the   *)
(* module, after any comments, is a string literal in either quote style.   *)
(***************************************************************************)
IsComment(tok) == tok = "// c"

RECURSIVE SkipComments(_)
SkipComments(s) ==
    IF s # <<>> /\ IsComment(Head(s)) THEN SkipComments(Tail(s)) ELSE s

LeadingDirective(src) ==
    LET s == SkipComments(src)
    IN IF /\ Len(s) >= 3
          /\ s[1] \in {SQ, DQ}
          /\ s[3] = s[1]
          /\ s[2] \in {"use client", "use server"}
       THEN s[2]
       ELSE "none"

(***************************************************************************)
(* build(): the four places that classify a module from its source text.    *)
(***************************************************************************)
UseServerSQ == <<SQ, "use server", SQ>>
UseServerDQ == <<DQ, "use server", DQ>>
UseClientSQ == <<SQ, "use client", SQ>>

\* entry-point discovery over app/actions
DiscoveryIsUseServer(src) == startsWith(src, UseServerSQ) \/ startsWith(src, UseServerDQ)
\* resolve-client-imports onResolve
ResolveIsUseClient(src) == startsWith(src, UseClientSQ)
\* register-server-functions onLoad
RegisterIsUseServer(src) == ~(~startsWith(src, UseServerSQ) /\ ~startsWith(src, UseServerDQ))
\* server-functions-proxy-client onResolve
ProxyIsUseServer(src) == startsWith(src, UseServerSQ) \/ startsWith(src, UseServerDQ)

(***************************************************************************)
(* build(): the ids.  JSON.stringify writes the id as a string literal into *)
(* the generated code; evaluating the literal gives the id back.            *)
(***************************************************************************)
JsonStringify(s) == <<DQ, s, DQ>>
EvalLiteral(l) == l[2]

\* register-server-functions: relative(resolveApp(), path).replace(/\\/g, '/') # name
RegistrationId(m, n) ==
    Flatten(ReplaceBackslash(relative(AppDir, resolveApp(m)))) \o "#" \o n

\* a proxy pass that forgets the .replace(/\\/g, '/')
ProxyId_NoReplace(m, n) ==
    Flatten(relative(AppDir, resolveApp(m))) \o "#" \o n

\* server-functions-proxy-client: the same expression, written a second time
ProxyId(m, n) ==
    Flatten(ReplaceBackslash(relative(AppDir, resolveApp(m)))) \o "#" \o n

(***************************************************************************)
(* build(): the server esbuild run.                                         *)
(***************************************************************************)
\* readdir(app/actions): the .js/.jsx files of that directory starting with the directive
serverFunctionEntryPoints ==
    {m \in DOMAIN tree :
        /\ tree[m].dir = Actions
        /\ IsScript(tree[m].file)
        /\ DiscoveryIsUseServer(tree[m].src)}

ServerEntries == {"page"} \cup serverFunctionEntryPoints

\* resolve-client-imports: an import whose specifier ends in .jsx and whose
\* target starts with 'use client' is marked external and becomes an entry
\* point of the client build
IsClientEdge(i) ==
    /\ ~i.bare
    /\ Last(tree[i.to].file) = ".jsx"
    /\ ResolveIsUseClient(tree[i.to].src)

RECURSIVE ServerBundle(_)
ServerBundle(S) ==
    LET N == S \cup {to \in DOMAIN tree :
                        \E m \in S : \E i \in ModEdges(m) : i.to = to /\ ~IsClientEdge(i)}
    IN IF N = S THEN S ELSE ServerBundle(N)

clientEntryPoints ==
    {to \in DOMAIN tree :
        \E e \in ServerEntries : \E m \in ServerBundle({e}) :
            \E i \in ModEdges(m) : i.to = to /\ IsClientEdge(i)}

\* register-server-functions onLoad: the calls appended to one module's source
Registrations(m) ==
    IF ~RegisterIsUseServer(tree[m].src) THEN <<>>
    ELSE LET ex == NamedExports(m)
         IN [i \in 1..Len(ex) |->
                [id |-> JsonStringify(RegistrationId(m, ex[i].n)),
                 n |-> ex[i].n, m |-> m, kind |-> ex[i].kind]]

\* the import declarations of the binding registerServerFunction in the source
\* the registration pass returns: the module's own, if it registers by hand,
\* and the one written in front of every registration call
DeclaresRegister(m) == "server-functions.js" \in SharedImports(m)
RegisterDeclarations(m) == (IF DeclaresRegister(m) THEN 1 ELSE 0) + Len(Registrations(m))

\* register-server-functions onLoad: what the callback returns to esbuild,
\* { contents, loader } and neither warnings nor errors
RegisterOnLoad(m) ==
    [calls |-> Registrations(m), declarations |-> RegisterDeclarations(m),
     warnings |-> {}, errors |-> {}]

\* an import specifier of a module of server/: `ups` times "../", then server/<file>
Specifier(ups, f) == [ups |-> ups, file |-> f]
ExternalList ==
    {Specifier(1, "state.js"), Specifier(2, "state.js"), Specifier(2, "server-functions.js")}

\* the specifiers one module brings into its bundle: its own imports, and the
\* import the registration pass prepends to every registration call
ModuleSpecifiers(m) ==
    {Specifier(Len(tree[m].dir) + 1, f) : f \in SharedImports(m)}
    \cup (IF Registrations(m) # <<>> THEN {Specifier(2, "server-functions.js")} ELSE {})

RECURSIVE ConcatRegs(_)
ConcatRegs(S) ==
    IF S = {} THEN <<>>
    ELSE LET m == CHOOSE x \in S : TRUE
         IN Registrations(m) \o ConcatRegs(S \ {m})

\* outdir layout: the entry's path below app/, with the extension .js
OutPath(e) == tree[e].dir \o <<Front(tree[e].file) \o <<".js">>>>

ServerArtifact(e) ==
    LET mods == ServerBundle({e})
        specs == UNION {ModuleSpecifiers(m) : m \in mods}
    IN [out |-> OutPath(e),
        mods |-> mods,
        regs |-> ConcatRegs(mods),
        external |-> specs \cap ExternalList,
        inlined |-> {s.file : s \in specs \ ExternalList}]

ServerArtifacts == {ServerArtifact(e) : e \in ServerEntries}

\* what the server esbuild run reports: the plugin's own warnings and errors,
\* and for a module that declares one binding twice the parser's error
AlreadyDeclared == "The symbol \"registerServerFunction\" has already been declared"
ServerBuildLog ==
    LET mods == UNION {ServerBundle({e}) : e \in ServerEntries}
    IN UNION {RegisterOnLoad(m).warnings \cup RegisterOnLoad(m).errors : m \in mods}
       \cup {[text |-> AlreadyDeclared, m |-> m] :
                m \in {x \in mods : RegisterOnLoad(x).declarations > 1}}

\* where an external specifier left in a build artifact points at run time
ResolveFrom(dir, s) ==
    IF s.ups > Len(dir) THEN <<Seg("server"), Seg(s.file)>>
    ELSE SubSeq(dir, 1, Len(dir) - s.ups) \o <<Seg("server"), Seg(s.file)>>

\* an artifact can be imported when every external import of it resolves to a file
Loadable(a) ==
    \A s \in a.external :
        ResolveFrom(BuildDir \o Front(a.out), s) = ServerDir \o <<Seg(s.file)>>

(***************************************************************************)
(* build(): the client esbuild run.                                         *)
(***************************************************************************)
\* server-functions-proxy-client onResolve: an import whose specifier ends in
\* .js or .jsx and whose target starts with the directive goes to the
\* server-fn-proxy namespace
IsProxyEdge(i) ==
    /\ ~i.bare
    /\ IsScript(tree[i.to].file)
    /\ ProxyIsUseServer(tree[i.to].src)

RECURSIVE ClientBundle(_)
ClientBundle(S) ==
    LET N == S \cup {to \in DOMAIN tree :
                        \E m \in S : \E i \in ModEdges(m) : i.to = to /\ ~IsProxyEdge(i)}
    IN IF N = S THEN S ELSE ClientBundle(N)

ClientEntries == {"_client"} \cup clientEntryPoints

ProxiedModules ==
    {to \in DOMAIN tree :
        \E m \in ClientBundle(ClientEntries) :
            \E i \in ModEdges(m) : i.to = to /\ IsProxyEdge(i)}

\* server-fn-proxy onLoad: one stub per named export
ProxyStubs(m) ==
    LET ex == NamedExports(m)
    IN {[call |-> JsonStringify(ProxyId(m, ex[i].n)),
         id |-> JsonStringify(ProxyId(m, ex[i].n)),
         n |-> ex[i].n, m |-> m] : i \in 1..Len(ex)}

ClientStubs == UNION {ProxyStubs(m) : m \in ProxiedModules}

\* server-fn-proxy onLoad: what the callback returns to esbuild
ProxyOnLoad(m) == [stubs |-> ProxyStubs(m), warnings |-> {}, errors |-> {}]

ClientBuildLog ==
    UNION {ProxyOnLoad(m).warnings \cup ProxyOnLoad(m).errors : m \in ProxiedModules}

\* the modules of server/ bundled into the client output
ClientInlinedShared == UNION {SharedImports(m) : m \in ClientBundle(ClientEntries)}

(***************************************************************************)
(* build(): the loop over outputFiles.  Every export of every output file   *)
(* gets two assignments appended to the file's text.                        *)
(***************************************************************************)
\* one output file per entry point of the client build, with the modules
\* bundled into it and the entry's exports (the chunks esbuild splits off hold
\* no module of the tree and are left out)
outputFiles ==
    {[out |-> OutPath(e), m |-> e, mods |-> ClientBundle({e}),
      exports |-> tree[e].exports] : e \in ClientEntries}

ClientReference == "react.client.reference"

\* a key without the /build/ in front
ClientKey_NoPrefix(out, n) ==
    Flatten(relative(BuildDir, BuildDir \o out)) \o "#" \o n

\* `/build/${relative(resolveBuild(), file.path)}` # exp.n
ClientKey(out, n) ==
    "/build/" \o Flatten(relative(BuildDir, BuildDir \o out)) \o "#" \o n

\* ${exp.ln}.$$id = <key>; ${exp.ln}.$$typeof = Symbol.for("react.client.reference");
RECURSIVE TagStatements(_, _)
TagStatements(out, exps) ==
    IF exps = <<>> THEN <<>>
    ELSE <<[ln |-> Head(exps).ln, prop |-> "$$id",
            val |-> JsonStringify(ClientKey(out, Head(exps).n))],
           [ln |-> Head(exps).ln, prop |-> "$$typeof",
            val |-> JsonStringify(ClientReference)]>>
         \o TagStatements(out, Tail(exps))

\* newContents: the file's text and the appended assignments
NewContents(file) ==
    [out |-> file.out, m |-> file.m, mods |-> file.mods, exports |-> file.exports,
     appended |-> TagStatements(file.out, file.exports)]

\* evaluating a written file: the assignments run in order; in a module an
\* assignment to a property of a number throws and ends the evaluation
LocalKind(file, ln) ==
    LET e == CHOOSE x \in {file.exports[i] : i \in DOMAIN file.exports} : x.ln = ln
    IN e.kind

RECURSIVE RunTags(_, _, _)
RunTags(file, stmts, props) ==
    IF stmts = <<>> THEN [threw |-> FALSE, props |-> props]
    ELSE IF LocalKind(file, Head(stmts).ln) # "function"
    THEN [threw |-> TRUE, props |-> props]
    ELSE RunTags(file, Tail(stmts),
                 [x \in DOMAIN props \cup {<<Head(stmts).ln, Head(stmts).prop>>} |->
                     IF x = <<Head(stmts).ln, Head(stmts).prop>>
                     THEN EvalLiteral(Head(stmts).val) ELSE props[x]])

\* the property the value exported as e carries once the file has been loaded
Carried(file, e, prop) ==
    LET r == RunTags(file, file.appended, [x \in {} |-> ""])
    IN IF ~r.threw /\ <<e.ln, prop>> \in DOMAIN r.props THEN r.props[<<e.ln, prop>>]
       ELSE ""

\* writeFile creates no directory: under build/ there are the directories the
\* server esbuild run made for its own output files
RECURSIVE IsPrefix(_, _)
IsPrefix(a, b) ==
    a = <<>> \/ (b # <<>> /\ Head(a) = Head(b) /\ IsPrefix(Tail(a), Tail(b)))
DirExists(d) == d = <<>> \/ \E a \in artifacts : IsPrefix(d, Front(a.out))

(***************************************************************************)
(* server/server-functions.js and server/state.js.                          *)
(***************************************************************************)
Return(v) == [kind |-> "return", err |-> "", msg |-> "", val |-> v]
Throw(e, m) == [kind |-> "throw", err |-> e, msg |-> m, val |-> Undefined]
CannotConvert == Throw("TypeError", "Cannot convert object to primitive value")

EmptyMap == [x \in {} |-> Undefined]
MapGet(map, k) == IF k \in DOMAIN map THEN map[k] ELSE Undefined
MapSet(map, k, v) == [x \in DOMAIN map \cup {k} |-> IF x = k THEN v ELSE map[x]]

\* a registry that keeps the first function registered under an id
registerServerFunction_KeepFirst(reg, id, fn) ==
    IF id \in DOMAIN reg THEN reg ELSE MapSet(reg, id, fn)

\* registry.set(id, fn)
registerServerFunction(reg, id, fn) == MapSet(reg, id, fn)

\* const fn = registry.get(id); if (!fn) throw new Error(`...${id}`); return fn
getServerFunction(reg, id) ==
    LET fn == MapGet(reg, id)
    IN IF ~Truthy(fn)
       THEN IF CanJsToString(id)
            THEN Throw("Error", "Server function not found: " \o JsToString(id))
            ELSE CannotConvert
       ELSE Return(fn)

\* store.get(key) ?? defaultVal
getValue(st, key, defaultVal) == IF key \in DOMAIN st THEN st[key] ELSE defaultVal

\* store.set(key, val)
setValue(st, key, val) == [x \in DOMAIN st \cup {key} |-> IF x = key THEN val ELSE st[x]]

(***************************************************************************)
(* app/actions/album.js.  The body holds no await: it runs in one piece.    *)
(* The result is the outcome and the store the call leaves.                 *)
(***************************************************************************)
AlbumKey(albumId) == "like-" \o JsToString(albumId)

\* a likeAlbum that writes back the value it read
likeAlbum_NoIncrement(st, albumId) ==
    IF ~CanJsToString(albumId) THEN [out |-> CannotConvert, st |-> st, key |-> ""]
    ELSE LET key == AlbumKey(albumId)
             current == getValue(st, key, 0)
         IN [out |-> Return(Undefined), st |-> setValue(st, key, current), key |-> key]

\* a likeAlbum that adds 1 to a value read before the other call wrote
likeAlbum_StaleRead(st, albumId) ==
    IF ~CanJsToString(albumId) THEN [out |-> CannotConvert, st |-> st, key |-> ""]
    ELSE LET key == AlbumKey(albumId)
             current == getValue(EmptyMap, key, 0)
         IN [out |-> Return(Undefined), st |-> setValue(st, key, current + 1), key |-> key]

likeAlbum(st, albumId) ==
    IF ~CanJsToString(albumId) THEN [out |-> CannotConvert, st |-> st, key |-> ""]
    ELSE LET key == AlbumKey(albumId)
             current == getValue(st, key, 0)
         IN [out |-> Return(Undefined), st |-> setValue(st, key, current + 1), key |-> key]

\* fn(...args) for a value the registry returned
CallFn(fn, args, st) ==
    IF fn.t # "function"
    THEN [out |-> Throw("TypeError", "fn is not a function"), st |-> st, key |-> ""]
    ELSE likeAlbum(st, IF Len(args) >= 1 THEN args[1] ELSE Undefined)

(***************************************************************************)
(* Module evaluation: import() of a build artifact runs the registration    *)
(* calls the build appended to the modules bundled into it.                 *)
(***************************************************************************)
ArtifactName(a) == Flatten(JoinAtoms(a.out, "/"))

ExportValue(reg, a) ==
    IF reg.kind = "function" THEN JsFun(reg.n, ArtifactName(a)) ELSE JsVal("number", "0")

RECURSIVE RunRegistrations(_, _, _)
RunRegistrations(reg, regs, a) ==
    IF regs = <<>> THEN reg
    ELSE RunRegistrations(
            registerServerFunction(reg, JsStr(EvalLiteral(Head(regs).id)),
                                   ExportValue(Head(regs), a)),
            Tail(regs), a)

\* readdir(build/actions), the files ending in .js, in directory order
RECURSIVE ListOf(_)
ListOf(S) ==
    IF S = {} THEN <<>>
    ELSE LET a == CHOOSE x \in S : TRUE
         IN <<a>> \o ListOf(S \ {a})

BuiltActionFiles ==
    ListOf({a \in artifacts : Front(a.out) = Actions /\ Last(Last(a.out)) = ".js"})

(***************************************************************************)
(* serve(app, callback): the callback runs once the server listens.         *)
(***************************************************************************)
NoCall == [op |-> "none", id |-> Undefined, fn |-> Undefined, prev |-> Undefined,
           had |-> FALSE,
           result |-> Return(Undefined), registered |-> EmptyMap]

\* build(), first await: the server esbuild run writes its output files; with
\* an error it writes none and rejects, build() and the serve callback reject
\* with it, and the unhandled rejection ends the process
BuildServer ==
    /\ phase = "build_server"
    /\ log' = log \cup ServerBuildLog
    /\ IF ServerBuildLog # {}
       THEN /\ phase' = "crashed"
            /\ artifacts' = artifacts
       ELSE /\ phase' = "build_client"
            /\ artifacts' = ServerArtifacts
    /\ UNCHANGED <<platform, tree, stubs, toImport, loaded, registry, store, reqs,
                   received, called, completed, lastCall, outputs, written>>

\* build(), second await: the client esbuild run; the loop over outputFiles
\* hands every file to writeFile and is not awaited; then readdir(build/actions)
BuildClient ==
    /\ phase = "build_client"
    /\ stubs' = ClientStubs
    /\ log' = log \cup ClientBuildLog
    /\ outputs' = {NewContents(f) : f \in outputFiles}
    /\ toImport' = BuiltActionFiles
    /\ phase' = "import"
    /\ UNCHANGED <<platform, tree, artifacts, loaded, registry, store, reqs,
                   received, called, completed, lastCall, written>>

\* await writeFile(file.path, newContents) of one output file completes; a
\* write into a missing directory rejects, and nothing handles the rejection
WriteOutput(f) ==
    /\ phase # "crashed"
    /\ f \in outputs
    /\ outputs' = outputs \ {f}
    /\ IF DirExists(Front(f.out))
       THEN /\ written' = written \cup {f}
            /\ phase' = phase
       ELSE /\ written' = written
            /\ phase' = "crashed"
    /\ UNCHANGED <<platform, tree, artifacts, stubs, toImport, loaded, registry,
                   store, reqs, received, called, completed, lastCall, log>>

\* await import(modulePath) of the next file; a failing import leaves the loop
\* through the catch around it
ImportNext ==
    /\ phase = "import"
    /\ toImport # <<>>
    /\ LET a == Head(toImport)
       IN IF Loadable(a)
          THEN /\ loaded' = loaded \cup {a.out}
               /\ registry' = RunRegistrations(registry, a.regs, a)
               /\ toImport' = Tail(toImport)
          ELSE /\ toImport' = <<>>
               /\ UNCHANGED <<loaded, registry>>
    /\ UNCHANGED <<platform, tree, phase, artifacts, stubs, store, reqs, received,
                   called, completed, lastCall, log, outputs, written>>

\* console.log(`Listening on ...`)
StartupDone ==
    /\ phase = "import"
    /\ toImport = <<>>
    /\ phase' = "ready"
    /\ UNCHANGED <<platform, tree, artifacts, stubs, toImport, loaded, registry,
                   store, reqs, received, called, completed, lastCall, log, outputs, written>>

(***************************************************************************)
(* app.post('/server-fn').  A request is                                    *)
(*   pc      "idle", "parse" (awaiting c.req.json()), "called" (awaiting     *)
(*           import('./build/page.js')), "imported", "done"                 *)
(*   body    the request body, dropped once it has been read                *)
(*   key     the store key the called function wrote ("" for none)          *)
(*   status, out, error   the response: "stream", or "json" with a message  *)
(***************************************************************************)
BadObject == JsVal("object", "badToString")
MkBody(kind, id, argsKind, args) ==
    [kind |-> kind, id |-> id, argsKind |-> argsKind, args |-> args]
NoBody == MkBody("none", Undefined, "missing", <<>>)
Idle == [pc |-> "idle", body |-> NoBody, key |-> "", status |-> 0, out |-> "none",
         error |-> ""]

\* what a client can send: the ids of the generated stubs, and forged ones
NetIds ==
    {JsStr("actions/album.js#likeAlbum"), JsStr("nonexistent#fn"), BadObject}
    \cup {JsStr(EvalLiteral(s.call)) : s \in stubs}
NetArgs ==
    {<<"missing", <<>>>>, <<"array", <<JsStr("a1")>>>>, <<"array", <<BadObject>>>>}
Bodies ==
    {MkBody("malformed", Undefined, "missing", <<>>), MkBody("null", Undefined, "missing", <<>>)}
    \cup {MkBody("object", id, a[1], a[2]) : id \in NetIds, a \in NetArgs}

Requests == 1..MaxReq

\* an error response sent without the status argument
JsonError_Status200(msg) ==
    [pc |-> "done", body |-> NoBody, key |-> "", status |-> 200, out |-> "json",
     error |-> msg]

\* c.json({ error: err instanceof Error ? err.message : 'Server error' }, 500)
JsonError(msg) ==
    [pc |-> "done", body |-> NoBody, key |-> "", status |-> 500, out |-> "json",
     error |-> msg]

\* a request arrives: the server has listened since before the callback started
\* (a new request takes the first free slot: which slot it takes means nothing)
Receive(r, body) ==
    /\ phase # "crashed"
    /\ reqs[r].pc = "idle"
    /\ \A q \in 1..(r - 1) : reqs[q].pc # "idle"
    /\ received < MaxCalls
    /\ reqs' = [reqs EXCEPT ![r] = [Idle EXCEPT !.pc = "parse", !.body = body]]
    /\ received' = received + 1
    /\ UNCHANGED <<platform, tree, phase, artifacts, stubs, toImport, loaded,
                   registry, store, called, completed, lastCall, log, outputs, written>>

\* const { id, args = [] } = await c.req.json(); const fn = getServerFunction(id);
\* await fn(...args): everything up to the function's returned promise
Execute(r) ==
    /\ phase # "crashed"
    /\ reqs[r].pc = "parse"
    /\ LET body == reqs[r].body
           got == getServerFunction(registry, body.id)
           call == CallFn(got.val, body.args, store)
       IN CASE body.kind = "malformed" ->
                 /\ reqs' = [reqs EXCEPT ![r] = JsonError("Unexpected end of JSON input")]
                 /\ store' = store
            [] body.kind = "null" ->
                 /\ reqs' = [reqs EXCEPT ![r] =
                                JsonError("Cannot destructure property 'id' of null")]
                 /\ store' = store
            [] OTHER ->
                 IF got.kind = "throw"
                 THEN /\ reqs' = [reqs EXCEPT ![r] = JsonError(got.msg)]
                      /\ store' = store
                 ELSE IF body.argsKind = "null"
                 THEN /\ reqs' = [reqs EXCEPT ![r] = JsonError("args is not iterable")]
                      /\ store' = store
                 ELSE IF call.out.kind = "throw"
                 THEN /\ reqs' = [reqs EXCEPT ![r] = JsonError(call.out.msg)]
                      /\ store' = call.st
                 ELSE /\ reqs' = [reqs EXCEPT ![r] =
                                    [Idle EXCEPT !.pc = "called", !.key = call.key]]
                      /\ store' = call.st
    /\ called' = IF reqs'[r].pc = "called"
                 THEN setValue(called, reqs'[r].key, getValue(called, reqs'[r].key, 0) + 1)
                 ELSE called
    /\ UNCHANGED <<platform, tree, phase, artifacts, stubs, toImport, loaded,
                   registry, received, completed, lastCall, log, outputs, written>>

PageArtifacts == {a \in artifacts : a.out = <<<<"page", ".js">>>>}

\* const Page = await import('./build/page.js')
ImportPage(r) ==
    /\ phase # "crashed"
    /\ reqs[r].pc = "called"
    /\ IF \E a \in PageArtifacts : Loadable(a)
       THEN LET a == CHOOSE x \in PageArtifacts : Loadable(x)
            IN /\ reqs' = [reqs EXCEPT ![r].pc = "imported"]
               /\ loaded' = loaded \cup {a.out}
               /\ registry' = IF a.out \in loaded THEN registry
                              ELSE RunRegistrations(registry, a.regs, a)
       ELSE /\ reqs' = [reqs EXCEPT ![r] = JsonError("Cannot find module")]
            /\ UNCHANGED <<loaded, registry>>
    /\ UNCHANGED <<platform, tree, phase, artifacts, stubs, toImport, store,
                   received, called, completed, lastCall, log, outputs, written>>

\* renderToPipeableStream(createElement(Page.default), '').pipe(c.env.outgoing)
StreamTree(r) ==
    /\ phase # "crashed"
    /\ reqs[r].pc = "imported"
    /\ reqs' = [reqs EXCEPT ![r].pc = "done", ![r].status = 200, ![r].out = "stream"]
    /\ completed' = IF reqs[r].key = "" THEN completed
                    ELSE setValue(completed, reqs[r].key,
                                  getValue(completed, reqs[r].key, 0) + 1)
    /\ UNCHANGED <<platform, tree, phase, artifacts, stubs, toImport, loaded,
                   registry, store, received, called, lastCall, log, outputs, written>>

\* the response has been sent: the slot is free for the next request
Respond(r) ==
    /\ phase # "crashed"
    /\ reqs[r].pc = "done"
    /\ reqs' = [reqs EXCEPT ![r] = Idle]
    /\ UNCHANGED <<platform, tree, phase, artifacts, stubs, toImport, loaded,
                   registry, store, received, called, completed, lastCall, log, outputs, written>>

(***************************************************************************)
(* The running program: startup and the requests.  No request reads the     *)
(* client output files; their writes are followed in BuildSpec below.       *)
(***************************************************************************)
Init ==
    /\ platform \in {"posix", "win32"}
    /\ tree \in Trees
    /\ platform = "win32" => tree \in WindowsTrees
    /\ phase = "build_server"
    /\ artifacts = {}
    /\ stubs = {}
    /\ toImport = <<>>
    /\ loaded = {}
    /\ registry = EmptyMap
    /\ store = EmptyMap
    /\ reqs = [r \in Requests |-> Idle]
    /\ received = 0
    /\ called = EmptyMap
    /\ completed = EmptyMap
    /\ lastCall = NoCall
    /\ log = {}
    /\ outputs = {}
    /\ written = {}

Next ==
    \/ BuildServer
    \/ BuildClient
    \/ ImportNext
    \/ StartupDone
    \/ \E r \in Requests : \E body \in Bodies : Receive(r, body)
    \/ \E r \in Requests : Execute(r)
    \/ \E r \in Requests : ImportPage(r)
    \/ \E r \in Requests : StreamTree(r)
    \/ \E r \in Requests : Respond(r)

Spec == Init /\ [][Next]_vars

(***************************************************************************)
(* The build and the startup on their own, over more source trees, with     *)
(* the writes of the client output files the build leaves behind.           *)
(***************************************************************************)
BuildInit ==
    /\ platform \in {"posix", "win32"}
    /\ tree \in BuildTrees
    /\ platform = "win32" => tree \in BuildWindowsTrees
    /\ phase = "build_server"
    /\ artifacts = {}
    /\ stubs = {}
    /\ toImport = <<>>
    /\ loaded = {}
    /\ registry = EmptyMap
    /\ store = EmptyMap
    /\ reqs = [r \in Requests |-> Idle]
    /\ received = 0
    /\ called = EmptyMap
    /\ completed = EmptyMap
    /\ lastCall = NoCall
    /\ log = {}
    /\ outputs = {}
    /\ written = {}

BuildNext ==
    \/ BuildServer
    \/ BuildClient
    \/ \E f \in outputs : WriteOutput(f)
    \/ ImportNext
    \/ StartupDone

BuildSpec == BuildInit /\ [][BuildNext]_vars

(***************************************************************************)
(* The registry on its own: registerServerFunction and getServerFunction    *)
(* called directly, with ids and values drawn from small sets.              *)
(***************************************************************************)
RegIds == {JsStr("actions/album.js#likeAlbum"), JsStr("album#likeAlbum"), JsStr("")}
RegFns == {JsFun("likeAlbum", "actions/album.js"), JsFun("likeAlbum", "page.js"),
           JsVal("number", "0"), Undefined}
\* an object parsed from a request body is a new object: it is no key of the Map
GetIds == RegIds \cup {JsStr("nonexistent#fn"), Undefined, JsVal("object", "plain"), BadObject}

CallRegister(id, fn) ==
    /\ registry' = registerServerFunction(registry, id, fn)
    /\ lastCall' = [op |-> "register", id |-> id, fn |-> fn,
                    prev |-> MapGet(registry, id), had |-> id \in DOMAIN registry,
                    result |-> Return(Undefined),
                    registered |-> MapSet(lastCall.registered, id, fn)]
    /\ UNCHANGED <<platform, tree, phase, artifacts, stubs, toImport, loaded, store,
                   reqs, received, called, completed, log, outputs, written>>

CallGet(id) ==
    /\ lastCall' = [op |-> "get", id |-> id, fn |-> Undefined,
                    prev |-> MapGet(registry, id), had |-> id \in DOMAIN registry,
                    result |-> getServerFunction(registry, id),
                    registered |-> lastCall.registered]
    /\ UNCHANGED <<platform, tree, phase, artifacts, stubs, toImport, loaded,
                   registry, store, reqs, received, called, completed, log, outputs, written>>

RegistryInit ==
    /\ platform = "posix"
    /\ tree = Repository
    /\ phase = "build_server"
    /\ artifacts = {}
    /\ stubs = {}
    /\ toImport = <<>>
    /\ loaded = {}
    /\ registry = EmptyMap
    /\ store = EmptyMap
    /\ reqs = [r \in Requests |-> Idle]
    /\ received = 0
    /\ called = EmptyMap
    /\ completed = EmptyMap
    /\ lastCall = NoCall
    /\ log = {}
    /\ outputs = {}
    /\ written = {}

RegistryNext ==
    \/ \E id \in RegIds : \E fn \in RegFns : CallRegister(id, fn)
    \/ \E id \in GetIds : CallGet(id)

RegistrySpec == RegistryInit /\ [][RegistryNext]_vars

(***************************************************************************)
(* Properties.                                                              *)
(***************************************************************************)
UseServerModules == {m \in DOMAIN tree : RegisterIsUseServer(tree[m].src)}
ExportNames(m) == {NamedExports(m)[i].n : i \in 1..Len(NamedExports(m))}
AllRegs == UNION {{a.regs[i] : i \in DOMAIN a.regs} : a \in artifacts}

\* C1: for every 'use server' module and every named export of it, the id
\* literal the registration pass writes equals the one the proxy pass writes,
\* as the argument of window.__callServerFunction and as $$id: both as the
\* two passes compute it for any module, and in the code the build generated.
C1_IdsAgree ==
    /\ \A m \in UseServerModules : \A n \in ExportNames(m) :
          JsonStringify(RegistrationId(m, n)) = JsonStringify(ProxyId(m, n))
    /\ \A reg \in AllRegs : \A s \in stubs :
          (s.m = reg.m /\ s.n = reg.n) => (reg.id = s.call /\ reg.id = s.id)

\* a build on Windows produced a registration and a stub for the same export
C1_Witness ==
    /\ platform = "win32"
    /\ \E reg \in AllRegs : \E s \in stubs : s.m = reg.m /\ s.n = reg.n

\* C2 (as claimed): getServerFunction(id) returns whatever value was last
\* registered under id, and does not throw.
C2_AnyValueRoundTrip ==
    (lastCall.op = "get" /\ lastCall.id \in DOMAIN lastCall.registered)
        => lastCall.result = Return(lastCall.registered[lastCall.id])

\* C2 (amended): getServerFunction(id) returns the value last registered under
\* id, and does not throw, when that value is truthy (as every function is).
C2_RoundTrip ==
    (/\ lastCall.op = "get"
     /\ lastCall.id \in DOMAIN lastCall.registered
     /\ Truthy(lastCall.registered[lastCall.id]))
        => lastCall.result = Return(lastCall.registered[lastCall.id])

\* a function registered under an id has just been resolved
C2_Witness ==
    /\ lastCall.op = "get"
    /\ lastCall.id \in DOMAIN lastCall.registered
    /\ lastCall.result.kind = "return"
    /\ lastCall.result.val = JsFun("likeAlbum", "page.js")

\* C3: getServerFunction(id) of an id never registered, whatever the value of
\* id, throws Error('Server function not found: <id>') and nothing else, and
\* the registry stays as the registrations left it.
C3_NotFoundOnly ==
    (lastCall.op = "get" /\ lastCall.id \notin DOMAIN lastCall.registered)
        => /\ lastCall.result.kind = "throw"
           /\ lastCall.result.err = "Error"
           /\ lastCall.result.msg = "Server function not found: " \o JsToString(lastCall.id)
           /\ registry = lastCall.registered

StartupRegs ==
    UNION {{a.regs[i] : i \in DOMAIN a.regs} :
              a \in {x \in ServerArtifacts : Front(x.out) = Actions /\ Loadable(x)}}

\* C5: whenever the dispatcher is about to call getServerFunction, every id
\* that startup registers is already in the registry.
C5_RegisteredBeforeDispatch ==
    \A r \in Requests :
        reqs[r].pc = "parse"
            => \A reg \in StartupRegs : JsStr(EvalLiteral(reg.id)) \in DOMAIN registry

\* C6: after startup, the id of every generated stub is a key of the registry,
\* mapped to the export of that name, and resolving it does not fail.
C6_StubsRegistered ==
    phase = "ready"
        => \A s \in stubs :
              LET id == JsStr(EvalLiteral(s.id))
              IN /\ id \in DOMAIN registry
                 /\ registry[id].v = s.n
                 /\ getServerFunction(registry, id).kind = "return"

\* the request's id resolves and the awaited call fn(...args) does not throw
CallSucceeds(r) ==
    LET body == reqs[r].body
        got == getServerFunction(registry, body.id)
    IN /\ body.kind = "object"
       /\ got.kind = "return"
       /\ body.argsKind # "null"
       /\ CallFn(got.val, body.args, store).out.kind = "return"

\* C7: a request whose id resolves and whose call does not throw is answered
\* with the tree stream; a request with a malformed body, an unknown id or a
\* throwing function is answered with JSON {error} and status 500; never both.
C7_OneOfTwoResponses ==
    [][\A r \in Requests :
        /\ (reqs[r].pc = "parse" /\ reqs'[r] # reqs[r])
              => IF CallSucceeds(r)
                 THEN reqs'[r].pc = "called" /\ reqs'[r].out = "none"
                 ELSE /\ reqs'[r].pc = "done"
                      /\ reqs'[r].status = 500
                      /\ reqs'[r].out = "json"
        /\ (reqs[r].pc \in {"called", "imported"} /\ reqs'[r] # reqs[r])
              => /\ reqs'[r].out # "json"
                 /\ reqs'[r].pc = "done"
                       => reqs'[r].status = 200 /\ reqs'[r].out = "stream"]_vars

\* C8: a request whose id is not in the registry is answered with an error
\* and status 500; the step changes no key of the store, nothing of the
\* registry or the startup state, and no other request.
C8_NotFoundLeavesStore ==
    [][\A r \in Requests :
        (/\ reqs[r].pc = "parse"
         /\ reqs[r].body.kind = "object"
         /\ reqs[r].body.id \notin DOMAIN registry
         /\ reqs'[r] # reqs[r])
            => /\ reqs'[r].pc = "done"
               /\ reqs'[r].status = 500
               /\ reqs'[r].out = "json"
               /\ reqs'[r].error # ""
               /\ store' = store
               /\ registry' = registry
               /\ phase' = phase
               /\ \A q \in Requests \ {r} : reqs'[q] = reqs[q]]_vars

\* a like was stored, and a later call of nonexistent#fn was answered 500
C8_Witness ==
    /\ getValue(store, "like-a1", 0) = 1
    /\ \E r \in Requests :
          /\ reqs[r].pc = "done"
          /\ reqs[r].status = 500
          /\ reqs[r].error = "Server function not found: nonexistent#fn"

LikeKeys == {"like-a1", "like-undefined"}

\* C9: when every likeAlbum call made so far has been answered with the tree
\* (n successful dispatches for a key k and no others), the store holds n
\* under 'like-' + k; only such keys are ever written.
C9_LikeCount ==
    /\ DOMAIN store \subseteq LikeKeys
    /\ \A key \in LikeKeys :
          getValue(called, key, 0) = getValue(completed, key, 0)
              => getValue(store, key, 0) = getValue(completed, key, 0)

\* two dispatches of likeAlbum("a1") have been answered, and nothing else was written
C9_Witness ==
    /\ tree = Repository
    /\ getValue(completed, "like-a1", 0) = 2
    /\ getValue(store, "like-a1", 0) = 2
    /\ DOMAIN store = {"like-a1"}
    /\ \A r \in Requests : reqs[r].pc = "idle"

\* C10: at every place that classifies, a module is Client exactly when its
\* first statement is the directive use client, ServerFunction exactly when
\* it is use server, in either quote style.
C10_Classification ==
    \A m \in DOMAIN tree :
        LET src == tree[m].src
            d == LeadingDirective(src)
        IN /\ ResolveIsUseClient(src) <=> d = "use client"
           /\ DiscoveryIsUseServer(src) <=> d = "use server"
           /\ RegisterIsUseServer(src) <=> d = "use server"
           /\ ProxyIsUseServer(src) <=> d = "use server"

(***************************************************************************)
(* Properties of the build.                                                 *)
(***************************************************************************)
\* the written output files of the modules the build took for client modules
ClientFiles == {f \in written : f.m \in clientEntryPoints}
ExportsOf(f) == {f.exports[i] : i \in DOMAIN f.exports}
BuildRelative(f) == Flatten(relative(BuildDir, BuildDir \o f.out))

\* the name of the last export of the file bound to the local name ln
LastNameOf(f, ln) ==
    LET idx == {i \in DOMAIN f.exports : f.exports[i].ln = ln}
    IN f.exports[CHOOSE i \in idx : \A j \in idx : j <= i].n

SharedFiles == {"state.js", "server-functions.js"}

\* the file an external specifier left in a written artifact denotes at run time
RuntimeTarget(a, s) == ResolveFrom(BuildDir \o Front(a.out), s)

\* the artifact holds an import of server/<f>, external or bundled
References(a, f) == f \in a.inlined \/ \E s \in a.external : s.file = f

\* C12: when build/page.js and the artifact of a server-function entry both
\* hold an import of a module of server/, the import is external in both and
\* every specifier of it, resolved from its output file, denotes the one
\* file server/<f>.
C12_SharedExternalSamePath ==
    \A f \in SharedFiles : \A a \in artifacts : \A b \in artifacts :
        (/\ a.out = <<<<"page", ".js">>>>
         /\ b.out # a.out
         /\ References(a, f)
         /\ References(b, f))
            => /\ f \notin a.inlined
               /\ f \notin b.inlined
               /\ \A s \in a.external : \A t \in b.external :
                     (s.file = f /\ t.file = f)
                        => /\ RuntimeTarget(a, s) = RuntimeTarget(b, t)
                           /\ RuntimeTarget(a, s) = ServerDir \o <<Seg(f)>>

\* the client output files, written or still to be written
ClientOutputs == outputs \cup written

\* C13: in the client build every import of a module starting with the
\* use server directive is replaced by the proxy module: no such module is
\* bundled into a client output file, and the proxy holds exactly one stub
\* per named export of the module.
C13_ServerFunctionsProxied ==
    \A f \in ClientOutputs :
        /\ \A m \in f.mods : ~ProxyIsUseServer(tree[m].src)
        /\ \A m \in f.mods : \A i \in ModEdges(m) :
              ProxyIsUseServer(tree[i.to].src)
                 => \A n \in ExportNames(i.to) :
                        Cardinality({s \in stubs : s.m = i.to /\ s.n = n}) = 1

\* C14: in the server build every import of a module starting with
\* 'use client' is marked external: no such module is bundled into a server
\* artifact, and the target is an entry point of the client build.
C14_ClientModulesExternal ==
    \A a \in artifacts :
        /\ \A m \in a.mods : ~ResolveIsUseClient(tree[m].src)
        /\ \A m \in a.mods : \A i \in ModEdges(m) :
              ResolveIsUseClient(tree[i.to].src) => i.to \in clientEntryPoints

(***************************************************************************)
(* Properties of the running server, continued.                             *)
(***************************************************************************)
\* the store key request r's call writes, and the store its call leaves when
\* it runs on the store st
CallOf(r, st) ==
    CallFn(getServerFunction(registry, reqs[r].body.id).val, reqs[r].body.args, st)

\* two requests that are both about to call likeAlbum on one key
Overlapping(r, q) ==
    /\ r # q
    /\ reqs[r].pc = "parse"
    /\ reqs[q].pc = "parse"
    /\ CallSucceeds(r)
    /\ CallSucceeds(q)
    /\ CallOf(r, store).key = CallOf(q, store).key

\* C15 (as claimed): when two dispatches of likeAlbum on one key overlap,
\* their calls can be ordered so that both return and the stored counter has
\* grown by only 1.
C15_LostUpdateReachable ==
    \A r \in Requests : \A q \in Requests :
        Overlapping(r, q)
            => \E o \in {<<r, q>>, <<q, r>>} :
                  LET key == CallOf(r, store).key
                      end == CallOf(o[2], CallOf(o[1], store).st).st
                  IN getValue(end, key, 0) = getValue(store, key, 0) + 1

\* C15 (amended): no update is lost.  The store holds under every key as
\* many likes as calls of likeAlbum on that key have returned, and two
\* dispatches on one key that are in flight together after their calls have
\* left the counter at 2 or more.
C15_NoLostUpdate ==
    /\ \A key \in LikeKeys : getValue(store, key, 0) = getValue(called, key, 0)
    /\ \A r \in Requests : \A q \in Requests :
          (/\ r # q
           /\ reqs[r].key # ""
           /\ reqs[r].key = reqs[q].key)
              => getValue(store, reqs[r].key, 0) >= 2

\* two dispatches of likeAlbum("a1"), in flight together, have both been
\* answered with the tree; they are the only requests so far
C15_Witness ==
    /\ received = 2
    /\ \A r \in {1, 2} :
          /\ reqs[r].pc = "done"
          /\ reqs[r].out = "stream"
          /\ reqs[r].key = "like-a1"
    /\ getValue(store, "like-a1", 0) = 2

(***************************************************************************)
(* Properties of the build, continued.                                      *)
(***************************************************************************)
HasDefault(m) == \E i \in DOMAIN tree[m].exports : tree[m].exports[i].n = "default"

\* the registration pass has run on m for a written artifact; the proxy pass
\* has run on m
ServerPassRan(m) ==
    RegisterIsUseServer(tree[m].src) /\ \E a \in artifacts : m \in a.mods
ProxyPassRan(m) == ClientOutputs # {} /\ m \in ProxiedModules

\* C16: when a pass has run on a use server module with a default export,
\* the build has reported that module (an error or a warning is in the log),
\* and no registration and no stub carries an id for the default export.
C16_DefaultReported ==
    \A m \in DOMAIN tree :
        (HasDefault(m) /\ (ServerPassRan(m) \/ ProxyPassRan(m)))
            => /\ \E msg \in log : msg.m = m
               /\ \A reg \in AllRegs : reg.m = m => reg.n # "default"
               /\ \A s \in stubs : s.m = m => s.n # "default"

\* the path of a module relative to app/, as node:path returns it
RelativePath(m) == relative(AppDir, resolveApp(m))

\* C17: two distinct pairs (module path relative to app/, export name) of
\* use server modules never get the same id, in neither pass; so no two
\* stubs of different exports carry one id.
C17_IdsInjective ==
    /\ \A m1 \in UseServerModules : \A m2 \in UseServerModules :
          \A n1 \in ExportNames(m1) : \A n2 \in ExportNames(m2) :
              <<RelativePath(m1), n1>> # <<RelativePath(m2), n2>>
                 => /\ RegistrationId(m1, n1) # RegistrationId(m2, n2)
                    /\ ProxyId(m1, n1) # ProxyId(m2, n2)
    /\ \A s1 \in stubs : \A s2 \in stubs :
          <<s1.m, s1.n>> # <<s2.m, s2.n>> => s1.id # s2.id

\* C18: for a use server module with at least one named export, the source
\* the registration pass returns holds exactly one registerServerFunction
\* call per named export, and at most one import declaration of the binding
\* registerServerFunction.
C18_OneCallOneImport ==
    \A m \in UseServerModules :
        Len(NamedExports(m)) >= 1
            => LET r == RegisterOnLoad(m)
               IN /\ Len(r.calls) = Len(NamedExports(m))
                  /\ \A n \in ExportNames(m) :
                        Cardinality({i \in DOMAIN r.calls : r.calls[i].n = n}) = 1
                  /\ \A i \in DOMAIN r.calls :
                        r.calls[i].id = JsonStringify(RegistrationId(m, r.calls[i].n))
                  /\ r.declarations <= 1
====
